---- MODULE Spec2Model ----
(***************************************************************************)
(* A model of the header-only hashmap of include/chashmap/hashmap.h and    *)
(* include/chashmap/_hashmap.h, instantiated with an integral key type.    *)
(*                                                                         *)
(* The heap is modelled explicitly.  Entries, list nodes and bucket tables *)
(* live in three address spaces; an address is a positive integer, handed  *)
(* out in increasing order, and NULL is 0.  A block that was freed is      *)
(* removed from its heap, so a read through a dangling pointer is an       *)
(* application outside the domain of the heap.                             *)
(*                                                                         *)
(* Every macro of the source is an operator on a memory image S, a record  *)
(* that bundles the map struct, the three heaps and the bookkeeping of the *)
(* call in progress, and returns the memory image after the macro.         *)
(***************************************************************************)
EXTENDS Integers, Sequences, FiniteSets, TLC

VARIABLES
    m,          \* the hashmap struct (hashmap.h:68-77)
    entries,    \* heap of struct _t_<entry> blocks, address -> block
    nodes,      \* heap of struct _ll_node_<map> blocks, address -> block
    tables,     \* heap of bucket tables, address -> array of chain heads
    next_id,    \* next fresh address of each heap
    call,       \* the call that ran last: its arguments, its return value,
                \* for a get the caller's variable behind `result` after the
                \* call, for a put the calloc that failed and how the growth
                \* went ("none" when the load factor was below the limit),
                \* for a free the number of blocks freed
    hist        \* history of the calls made so far: the keys in the order of
                \* their first put, the value of the latest put of each key
                \* that returned 0, the number of calls in which a calloc
                \* failed, and whether a growth has failed

vars == <<m, entries, nodes, tables, next_id, call, hist>>

-----------------------------------------------------------------------------
(* Bounds and inputs                                                       *)

\* puts are issued while _num_entries is below this bound; the table grows
\* at the 13th, the 24th and the 46th put
MaxPuts == 46

\* once a calloc has failed, puts are issued while _num_entries is below
\* this bound
MaxPutsAfterFail == 24

\* at most this many calls meet a failing calloc
MaxFails == 1

\* The arguments <<k, v>> of the puts.  Key 31 and the negative key -15
\* share bucket 1 under the capacities 15 and 30; under capacity 60 key 31
\* moves to bucket 31.
PutArgs == {<<31, 7>>, <<31, 8>>, <<-15, 7>>}

Keys == {a[1] : a \in PutArgs}

Values == {a[2] : a \in PutArgs}

\* what the caller's variable holds when it is passed to HASHMAP_GET
NoResult == 9

\* the hash functions are applied to the capacities 1 .. MaxCapacity
MaxCapacity == 120

\* integral keys a hash function is applied to
IntKeys == {0, 1, 14, 15, 31, 2147483647, -1, -14, -15, -16, -31, -2147483647}

\* Floating-point keys a hash function is applied to, as the fields of their
\* binary64 representation: 0.0, -0.0, the smallest subnormal, 1.0, -2.0,
\* 1 + 2^-22, infinity and a NaN.
DoubleKeys ==
    {[sign |-> 0, exponent |-> 0, fraction |-> 0],
     [sign |-> 1, exponent |-> 0, fraction |-> 0],
     [sign |-> 0, exponent |-> 0, fraction |-> 1],
     [sign |-> 0, exponent |-> 1023, fraction |-> 0],
     [sign |-> 1, exponent |-> 1024, fraction |-> 0],
     [sign |-> 0, exponent |-> 1023, fraction |-> 1073741824],
     [sign |-> 0, exponent |-> 2047, fraction |-> 0],
     [sign |-> 1, exponent |-> 2047, fraction |-> 1]}

\* addresses a hash function is applied to, NULL among them
PtrKeys == {0, 1, 8, 16, 24, 4096, 65528, 357913941}

\* in the runs that put a new key each time, this many puts are issued
MaxDistinctPuts == 13

\* The keys the i-th put of such a run chooses from: 0, 1, 2, ... or a
\* negative key.  No key belongs to two puts.
DistinctKeys(i) == {i - 1, -i}

\* in the runs that put colliding keys, puts are issued while _num_entries
\* is below this bound; the table grows at the 13th and the 24th put
MaxChainPuts == 24

\* Keys that share bucket 1 under capacity 15.  Under capacity 30 key 16
\* moves to bucket 16 and the others stay in bucket 1; under capacity 60
\* the keys 1 and -15 share bucket 1.
ChainKeys == {1, 16, 31, -15}

-----------------------------------------------------------------------------
(* Constants of the source                                                 *)

NULL == 0

_DEFAULT_TABLE_SIZE == 15

\* _LOAD_FACTOR_LIM is 0.75 = 3/4.  For the counters of this model the
\* double quotient n / size is >= 0.75 exactly when 4 * n >= 3 * size: 0.75
\* is a binary fraction and n / size differs from it by at least 1 / (4 size).
_LOAD_FACTOR_LIM_NUM == 3
_LOAD_FACTOR_LIM_DEN == 4

\* width of size_t and of long long
SIZE_WIDTH == 64

-----------------------------------------------------------------------------
(* Sequencing                                                              *)

\* A macro is an operator from the memory before it to the memory after it.
\* Its statements run one after the other, each on the memory its
\* predecessor left: The({B : S \in {A}}) is B on the memory S that A left.
The(set) == CHOOSE y \in set : TRUE

-----------------------------------------------------------------------------
(* Hash functions                                                          *)

\* 2^e modulo n, without leaving the range of the model checker's integers
RECURSIVE PowMod2(_, _)
PowMod2(e, n) ==
    IF e = 0
    THEN 1 % n
    ELSE IF e % 2 = 1
         THEN (2 * PowMod2(e - 1, n)) % n
         ELSE The({ (h * h) % n : h \in {PowMod2(e \div 2, n)} })

\* _hash_long_long with the remainder taken in the signed type: it has the
\* sign of val
HashSignedRemainder(table_size, val) ==
    IF val >= 0
    THEN val % table_size
    ELSE 0 - ((0 - val) % table_size)

\* val % table_size with val converted from long long to the unsigned type
\* of table_size: a negative val becomes 2^64 + val before the remainder.
_hash_long_long(table_size, val) ==
    IF val >= 0
    THEN val % table_size
    ELSE (PowMod2(SIZE_WIDTH, table_size) + (val % table_size)) % table_size

\* width of the fraction and position of the sign of a binary64 double
DOUBLE_FRACTION_WIDTH == 52
DOUBLE_SIGN_BIT == 63

\* val_bits.s % table_size, where val_bits.s is the object representation
\* of the double val read as a size_t: sign * 2^63 + exponent * 2^52 +
\* fraction.  The remainder is taken term by term.
_hash_double(table_size, val) ==
    (val.sign * PowMod2(DOUBLE_SIGN_BIT, table_size)
     + val.exponent * PowMod2(DOUBLE_FRACTION_WIDTH, table_size)
     + (val.fraction % table_size)) % table_size

\* _hash_ptr without the factor 6
HashPtrUnscaled(table_size, ptr) == (ptr % (table_size * 2)) % table_size

\* (((size_t) ptr * 6) % (table_size * 2)) % table_size.  For the addresses
\* and capacities of this model neither product reaches 2^64.
_hash_ptr(table_size, ptr) == ((ptr * 6) % (table_size * 2)) % table_size

\* the function the map calls through its hash_func field (integral keys)
hash_func(table_size, k) == _hash_long_long(table_size, k)

-----------------------------------------------------------------------------
(* Memory images                                                           *)

\* calloc fails at the call whose number within the operation is S.failAt
CallocFails(S) == S.ncalloc + 1 = S.failAt

Remove(heap, addr) == [a \in (DOMAIN heap) \ {addr} |-> heap[a]]

Extend(heap, addr, block) ==
    [a \in (DOMAIN heap) \cup {addr} |-> IF a = addr THEN block ELSE heap[a]]

\* the memory image at the start of an operation
Image(failAt) ==
    [m |-> m, entries |-> entries, nodes |-> nodes, tables |-> tables,
     next_id |-> next_id, ncalloc |-> 0, failAt |-> failAt,
     failed |-> "none", growth |-> "none", rv |-> 0]

-----------------------------------------------------------------------------
(* Entry-order list                                                        *)

SetNode(S, n, field, val) == [S EXCEPT !.nodes[n][field] = val]

SetHead(S, n) == [S EXCEPT !.m._head = n]
SetTail(S, n) == [S EXCEPT !.m._tail = n]

\* _HASHMAP_LL_ADD_AFTER without the store to new_node->_previous
LlAddAfterOneWay(S, node, new_node) ==
    SetNode(IF S.nodes[node]._next = NULL
            THEN SetTail(SetNode(S, new_node, "_next", NULL), new_node)
            ELSE SetNode(SetNode(S, new_node, "_next", S.nodes[node]._next),
                         S.nodes[node]._next, "_previous", new_node),
            node, "_next", new_node)

_HASHMAP_LL_ADD_AFTER(S, node, new_node) ==
    The({ SetNode(IF S1.nodes[node]._next = NULL
                  THEN SetTail(SetNode(S1, new_node, "_next", NULL), new_node)
                  ELSE SetNode(SetNode(S1, new_node, "_next",
                                       S1.nodes[node]._next),
                               S1.nodes[node]._next, "_previous", new_node),
                  node, "_next", new_node)
          : S1 \in {SetNode(S, new_node, "_previous", node)} })

_HASHMAP_LL_ADD_BEFORE(S, node, new_node) ==
    The({ SetNode(IF S1.nodes[node]._previous = NULL
                  THEN SetHead(SetNode(S1, new_node, "_previous", NULL),
                               new_node)
                  ELSE SetNode(SetNode(S1, new_node, "_previous",
                                       S1.nodes[node]._previous),
                               S1.nodes[node]._previous, "_next", new_node),
                  node, "_previous", new_node)
          : S1 \in {SetNode(S, new_node, "_next", node)} })

_HASHMAP_LL_ADD_HEAD(S, n) ==
    IF S.m._head = NULL
    THEN SetNode(SetNode(SetTail(SetHead(S, n), n), n, "_previous", NULL),
                 n, "_next", NULL)
    ELSE _HASHMAP_LL_ADD_BEFORE(S, S.m._head, n)

\* _HASHMAP_LL_ADD_TAIL that links the new node in front of the head
LlAddTailAtHead(S, n) == _HASHMAP_LL_ADD_HEAD(S, n)

_HASHMAP_LL_ADD_TAIL(S, n) ==
    IF S.m._tail = NULL
    THEN _HASHMAP_LL_ADD_HEAD(S, n)
    ELSE _HASHMAP_LL_ADD_AFTER(S, S.m._tail, n)

\* rv is 0 for success and -1 when the node could not be allocated
_HASHMAP_LL_PUT(S, entry_ptr) ==
    IF CallocFails(S)
    THEN [S EXCEPT !.ncalloc = @ + 1, !.failed = "node", !.rv = -1]
    ELSE The({ [_HASHMAP_LL_ADD_TAIL(S1, S.next_id.node) EXCEPT !.rv = 0]
               : S1 \in {[S EXCEPT
                            !.ncalloc = @ + 1,
                            !.next_id.node = @ + 1,
                            !.nodes = Extend(@, S.next_id.node,
                                             [_table_entry |-> entry_ptr,
                                              _previous |-> NULL,
                                              _next |-> NULL]),
                            !.entries[entry_ptr]._ll_node = S.next_id.node]} })

-----------------------------------------------------------------------------
(* Bucket table                                                            *)

\* A cursor of type "pointer to entry pointer" is <<"cell", i>> for the
\* address of cell i of the current table and <<"next", e>> for the address
\* of the _next_entry field of entry e.
Cell(i) == <<"cell", i>>
NextOf(e) == <<"next", e>>

Deref(S, cur) ==
    IF cur[1] = "cell"
    THEN S.tables[S.m._entry_table][cur[2]]
    ELSE S.entries[cur[2]]._next_entry

Store(S, cur, e) ==
    IF cur[1] = "cell"
    THEN [S EXCEPT !.tables[S.m._entry_table][cur[2]] = e]
    ELSE [S EXCEPT !.entries[cur[2]]._next_entry = e]

\* the loop of _HASHMAP_FIND_ENTRY_RECORD from cursor cur on
RECURSIVE FindWalk(_, _, _)
FindWalk(S, cur, k) ==
    IF Deref(S, cur) = NULL
    THEN cur
    ELSE IF S.entries[Deref(S, cur)]._entry.key = k
         THEN cur
         ELSE The({ FindWalk(S, nxt, k) : nxt \in {NextOf(Deref(S, cur))} })

_HASHMAP_FIND_ENTRY_RECORD(S, k) ==
    FindWalk(S, Cell(hash_func(S.m._table_size, k)), k)

\* the cursor that stops at the last entry of a non-empty chain
RECURSIVE LastWalk(_, _)
LastWalk(S, cur) ==
    IF S.entries[Deref(S, cur)]._next_entry # NULL
    THEN The({ LastWalk(S, nxt) : nxt \in {NextOf(Deref(S, cur))} })
    ELSE cur

\* LinkNewEntry that links the new entry in front of the chain
LinkNewEntryAtHead(S, e, _table_entry_cell) ==
    The({ Store(S1, _table_entry_cell, e)
          : S1 \in {Store(S, NextOf(e), Deref(S, _table_entry_cell))} })

\* the allocation branch of _HASHMAP_TABLE_PUT once the new entry e is
\* filled in: e goes into the empty cell or behind the last entry of the
\* chain
LinkNewEntry(S, e, _table_entry_cell) ==
    IF Deref(S, _table_entry_cell) = NULL
    THEN Store(S, _table_entry_cell, e)
    ELSE Store(S, NextOf(Deref(S, LastWalk(S, _table_entry_cell))), e)

\* rv is the address of the new entry, or NULL after an update in place and
\* after a failed allocation
_HASHMAP_TABLE_PUT(S, k, v) ==
    The({ IF found # NULL
          THEN [S EXCEPT !.entries[found]._entry.value = v, !.rv = NULL]
          ELSE IF CallocFails(S)
               THEN [S EXCEPT !.ncalloc = @ + 1, !.failed = "entry",
                              !.rv = NULL]
               ELSE The({ [LinkNewEntry(S1, S.next_id.entry,
                                        Cell(hash_func(S.m._table_size, k)))
                           EXCEPT !.rv = S.next_id.entry]
                          : S1 \in {[S EXCEPT
                                !.ncalloc = @ + 1,
                                !.next_id.entry = @ + 1,
                                !.entries = Extend(@, S.next_id.entry,
                                    [_entry |-> [key |-> k, value |-> v],
                                     _next_entry |-> NULL,
                                     _ll_node |-> NULL])]} })
          : found \in {Deref(S, _HASHMAP_FIND_ENTRY_RECORD(S, k))} })

-----------------------------------------------------------------------------
(* Growth                                                                  *)

RECURSIVE RehashLoop(_, _)

\* RehashStep without the free of the old Entry
RehashStepKeepingOld(S1, _ll_node_cursor, _table_entry) ==
    IF S1.rv = NULL
    THEN [S1 EXCEPT !.rv = -1,
                    !.failed = IF @ = "entry" THEN "rehash" ELSE @]
    ELSE The({ RehashLoop(S2, S2.nodes[_ll_node_cursor]._next)
               : S2 \in {[S1 EXCEPT
                            !.nodes[_ll_node_cursor]._table_entry = S1.rv]} })

\* the rest of one iteration, S1 being the memory _HASHMAP_TABLE_PUT left
RehashStep(S1, _ll_node_cursor, _table_entry) ==
    IF S1.rv = NULL
    THEN [S1 EXCEPT !.rv = -1,
                    !.failed = IF @ = "entry" THEN "rehash" ELSE @]
    ELSE The({ RehashLoop(S2, S2.nodes[_ll_node_cursor]._next)
               : S2 \in {[S1 EXCEPT
                            !.nodes[_ll_node_cursor]._table_entry = S1.rv,
                            !.entries = Remove(@, _table_entry)]} })

\* The loop of _HASHMAP_REHASH_TABLE from list node _ll_node_cursor on.
\* rv is 0 when the loop ran off the end of the list and -1 when a
\* _HASHMAP_TABLE_PUT returned NULL.
RehashLoop(S, _ll_node_cursor) ==
    IF _ll_node_cursor = NULL
    THEN [S EXCEPT !.rv = 0]
    ELSE The({ RehashStep(S1, _ll_node_cursor,
                          S.nodes[_ll_node_cursor]._table_entry)
               : S1 \in {_HASHMAP_TABLE_PUT(S,
                    S.entries[S.nodes[_ll_node_cursor]._table_entry]._entry.key,
                    S.entries[S.nodes[_ll_node_cursor]._table_entry]._entry.value)} })

_HASHMAP_REHASH_TABLE(S) == RehashLoop(S, S.m._head)

\* _HASHMAP_INCREASE_SIZE that stores the doubled size in the map before it
\* tests the pointer calloc returned
IncreaseSizeBeforeCalloc(S) ==
    IF CallocFails(S)
    THEN [S EXCEPT !.ncalloc = @ + 1, !.failed = "table", !.rv = -1,
                   !.m._table_size = @ * 2]
    ELSE The({ [_HASHMAP_REHASH_TABLE(S1)
                EXCEPT !.tables = Remove(@, S.m._entry_table)]
               : S1 \in {[S EXCEPT
                            !.ncalloc = @ + 1,
                            !.next_id.table = @ + 1,
                            !.tables = Extend(@, S.next_id.table,
                                [i \in 0 .. (S.m._table_size * 2 - 1) |-> NULL]),
                            !.m._table_size = @ * 2,
                            !.m._entry_table = S.next_id.table]} })

\* _HASHMAP_INCREASE_SIZE that grows the table as realloc would: the cells
\* of the old table are copied to the front of the new one and no Entry is
\* re-inserted
IncreaseSizeCopyingCells(S) ==
    IF CallocFails(S)
    THEN [S EXCEPT !.ncalloc = @ + 1, !.failed = "table", !.rv = -1]
    ELSE [S EXCEPT
            !.ncalloc = @ + 1,
            !.next_id.table = @ + 1,
            !.tables = Extend(Remove(@, S.m._entry_table), S.next_id.table,
                [i \in 0 .. (S.m._table_size * 2 - 1) |->
                    IF i < S.m._table_size
                    THEN S.tables[S.m._entry_table][i]
                    ELSE NULL]),
            !.m._table_size = @ * 2,
            !.m._entry_table = S.next_id.table,
            !.rv = 0]

_HASHMAP_INCREASE_SIZE(S) ==
    IF CallocFails(S)
    THEN [S EXCEPT !.ncalloc = @ + 1, !.failed = "table", !.rv = -1]
    ELSE The({ [_HASHMAP_REHASH_TABLE(S1)
                EXCEPT !.tables = Remove(@, S.m._entry_table)]
               : S1 \in {[S EXCEPT
                            !.ncalloc = @ + 1,
                            !.next_id.table = @ + 1,
                            !.tables = Extend(@, S.next_id.table,
                                [i \in 0 .. (S.m._table_size * 2 - 1) |-> NULL]),
                            !.m._table_size = @ * 2,
                            !.m._entry_table = S.next_id.table]} })

-----------------------------------------------------------------------------
(* Public operations                                                       *)

\* the comparison with > in place of >=
LoadFactorExceeded(num_entries, table_size) ==
    _LOAD_FACTOR_LIM_DEN * num_entries > _LOAD_FACTOR_LIM_NUM * table_size

\* the load factor computed with the entry that is about to be inserted
LoadFactorWithNewEntry(num_entries, table_size) ==
    _LOAD_FACTOR_LIM_DEN * (num_entries + 1) >= _LOAD_FACTOR_LIM_NUM * table_size

\* the comparison with the limit 1.0 in place of _LOAD_FACTOR_LIM
LoadFactorReachedOne(num_entries, table_size) == num_entries >= table_size

\* _load_factor >= _LOAD_FACTOR_LIM
LoadFactorReached(num_entries, table_size) ==
    _LOAD_FACTOR_LIM_DEN * num_entries >= _LOAD_FACTOR_LIM_NUM * table_size

\* the list put that follows the table put, S1 being the memory
\* _HASHMAP_TABLE_PUT left, and _return_val: 0 when _ll_put_res is 0
ListPut(S1) ==
    IF S1.rv # NULL
    THEN [_HASHMAP_LL_PUT(S1, S1.rv) EXCEPT !.rv = IF @ = 0 THEN 0 ELSE -1]
    ELSE [S1 EXCEPT !.rv = 0]

\* the insertion both branches of HASHMAP_PUT perform
PutEntry(S, k, v) ==
    The({ ListPut(S1) : S1 \in {_HASHMAP_TABLE_PUT(S, k, v)} })

\* PutAfterGrowth without the test of _increase_size_res: the pair is put
\* whether or not the table has grown
PutAfterGrowthUnchecked(G, k, v) ==
    The({ PutEntry(S1, k, v)
          : S1 \in {[G EXCEPT !.growth = IF G.rv = 0 THEN "done"
                                         ELSE "failed"]} })

\* the branch of HASHMAP_PUT taken when the load factor has reached the
\* limit, G being the memory _HASHMAP_INCREASE_SIZE left
PutAfterGrowth(G, k, v) ==
    IF G.rv = 0
    THEN The({ PutEntry(S1, k, v) : S1 \in {[G EXCEPT !.growth = "done"]} })
    ELSE [G EXCEPT !.growth = "failed", !.rv = -1]

\* HASHMAP_PUT that counts only the calls that return 0
PutCountingSuccess(S, k, v) ==
    The({ [S1 EXCEPT !.m._num_entries = IF S1.rv = 0 THEN @ + 1 ELSE @]
          : S1 \in {IF LoadFactorReached(S.m._num_entries, S.m._table_size)
                    THEN The({ PutAfterGrowth(G, k, v)
                               : G \in {_HASHMAP_INCREASE_SIZE(S)} })
                    ELSE PutEntry(S, k, v)} })

HASHMAP_PUT(S, k, v) ==
    [(IF LoadFactorReached(S.m._num_entries, S.m._table_size)
      THEN The({ PutAfterGrowth(G, k, v) : G \in {_HASHMAP_INCREASE_SIZE(S)} })
      ELSE PutEntry(S, k, v))
     EXCEPT !.m._num_entries = @ + 1]

\* GetWalk without the comparison of the keys: the first entry of the chain
\* is taken for the match
GetWalkFirstInChain(ents, _table_cell, result0, k) ==
    IF _table_cell = NULL
    THEN [rv |-> FALSE, result |-> result0]
    ELSE [rv |-> TRUE, result |-> ents[_table_cell]._entry.value]

\* The search loop of HASHMAP_GET from chain position _table_cell on, and
\* the store through result that follows it.  The caller's variable holds
\* result0 before the call; rv is the return value and result is what the
\* caller's variable holds after the call.
RECURSIVE GetWalk(_, _, _, _)
GetWalk(ents, _table_cell, result0, k) ==
    IF _table_cell = NULL
    THEN [rv |-> FALSE, result |-> result0]
    ELSE IF ents[_table_cell]._entry.key = k
         THEN [rv |-> TRUE, result |-> ents[_table_cell]._entry.value]
         ELSE GetWalk(ents, ents[_table_cell]._next_entry, result0, k)

HASHMAP_GET(mm, ents, tabs, result0, k) ==
    GetWalk(ents, tabs[mm._entry_table][hash_func(mm._table_size, k)],
            result0, k)

\* HASHMAP_INIT that does not test the pointer calloc returned
InitUnchecked(calloc_fails) ==
    [m |-> [_table_size |-> _DEFAULT_TABLE_SIZE, _num_entries |-> 0,
            _head |-> NULL, _tail |-> NULL,
            _entry_table |-> IF calloc_fails THEN NULL ELSE 1],
     entries |-> << >>,
     nodes |-> << >>,
     tables |-> [t \in (IF calloc_fails THEN {} ELSE {1}) |->
                    [i \in 0 .. (_DEFAULT_TABLE_SIZE - 1) |-> NULL]],
     next_id |-> [entry |-> 1, node |-> 1,
                  table |-> IF calloc_fails THEN 1 ELSE 2],
     failed |-> IF calloc_fails THEN "table" ELSE "none",
     rv |-> 0]

\* The memory after HASHMAP_INIT(m) on an uninitialised struct; calloc_fails
\* tells whether the calloc of the table returns NULL.  The first table gets
\* address 1.
HASHMAP_INIT(calloc_fails) ==
    [m |-> [_table_size |-> _DEFAULT_TABLE_SIZE, _num_entries |-> 0,
            _head |-> NULL, _tail |-> NULL,
            _entry_table |-> IF calloc_fails THEN NULL ELSE 1],
     entries |-> << >>,
     nodes |-> << >>,
     tables |-> [t \in (IF calloc_fails THEN {} ELSE {1}) |->
                    [i \in 0 .. (_DEFAULT_TABLE_SIZE - 1) |-> NULL]],
     next_id |-> [entry |-> 1, node |-> 1,
                  table |-> IF calloc_fails THEN 1 ELSE 2],
     failed |-> IF calloc_fails THEN "table" ELSE "none",
     rv |-> IF calloc_fails THEN -1 ELSE 0]

\* The memory image at the start of HASHMAP_FREE: freed counts the blocks
\* freed per heap, ub tells whether a freed block was read or freed again.
FreeImage ==
    [m |-> m, entries |-> entries, nodes |-> nodes, tables |-> tables,
     freed |-> [entries |-> 0, nodes |-> 0, tables |-> 0], ub |-> FALSE]

\* free(ptr) for a block of the heap named heap
free(F, heap, ptr) ==
    IF ptr = NULL
    THEN F
    ELSE IF ptr \notin DOMAIN F[heap]
         THEN [F EXCEPT !.ub = TRUE]
         ELSE [F EXCEPT ![heap] = Remove(@, ptr), !.freed[heap] = @ + 1]

\* the loop of _HASHMAP_TABLE_FREE from list node _ll_node_cursor on
RECURSIVE TableFreeLoop(_, _)
TableFreeLoop(F, _ll_node_cursor) ==
    IF _ll_node_cursor = NULL \/ F.ub
    THEN F
    ELSE IF _ll_node_cursor \notin DOMAIN F.nodes
         THEN [F EXCEPT !.ub = TRUE]
         ELSE The({ TableFreeLoop(F1, F1.nodes[_ll_node_cursor]._next)
                    : F1 \in {free(F, "entries",
                                   F.nodes[_ll_node_cursor]._table_entry)} })

_HASHMAP_TABLE_FREE(F) ==
    The({ IF F1.ub THEN F1 ELSE free(F1, "tables", F1.m._entry_table)
          : F1 \in {TableFreeLoop(F, F.m._head)} })

\* the loop of _HASHMAP_LL_FREE from list node _ll_node_cursor on: the
\* cursor moves on before the node is freed
RECURSIVE LlFreeLoop(_, _)
LlFreeLoop(F, _ll_node_cursor) ==
    IF _ll_node_cursor = NULL \/ F.ub
    THEN F
    ELSE IF _ll_node_cursor \notin DOMAIN F.nodes
         THEN [F EXCEPT !.ub = TRUE]
         ELSE The({ LlFreeLoop(F1, F.nodes[_ll_node_cursor]._next)
                    : F1 \in {free(F, "nodes", _ll_node_cursor)} })

_HASHMAP_LL_FREE(F) == LlFreeLoop(F, F.m._head)

HASHMAP_FREE(F) ==
    The({ _HASHMAP_LL_FREE(F1) : F1 \in {_HASHMAP_TABLE_FREE(F)} })

-----------------------------------------------------------------------------
(* The state machine                                                       *)

\* the state after HASHMAP_INIT
InitWith(calloc_fails) ==
    \E S \in {HASHMAP_INIT(calloc_fails)} :
        /\ m = S.m
        /\ entries = S.entries
        /\ nodes = S.nodes
        /\ tables = S.tables
        /\ next_id = S.next_id
        /\ call = [op |-> "init", k |-> 0, v |-> 0, rv |-> S.rv,
                   result |-> NoResult, failed |-> S.failed,
                   growth |-> "none"]
        /\ hist = [first |-> << >>, last |-> << >>,
                   nfail |-> 0, growth_failed |-> FALSE]

\* the state after a successful HASHMAP_INIT
Init == InitWith(FALSE)

\* the state after HASHMAP_INIT, successful or not
InitAny == \E calloc_fails \in BOOLEAN : InitWith(calloc_fails)

\* the caller may put and get: the map was initialised with success and
\* has not been freed
Usable == call.op # "free" /\ m._entry_table # NULL

InSeq(s, x) == \E i \in 1 .. Len(s) : s[i] = x

\* the memory image after HASHMAP_PUT(m, k, v) from the current state, when
\* calloc call number failAt of the operation fails (none when failAt = 0)
PutOutcome(k, v, failAt) ==
    The({ HASHMAP_PUT(S, k, v) : S \in {Image(failAt)} })

\* one HASHMAP_PUT(m, k, v)
DoPut(k, v, failAt) ==
    \E S \in {PutOutcome(k, v, failAt)} :
        /\ (failAt = 0) = (S.failed = "none")
        /\ m' = S.m
        /\ entries' = S.entries
        /\ nodes' = S.nodes
        /\ tables' = S.tables
        /\ next_id' = S.next_id
        /\ call' = [op |-> "put", k |-> k, v |-> v, rv |-> S.rv,
                    result |-> NoResult, failed |-> S.failed,
                    growth |-> S.growth]
        /\ hist' = [first |-> IF InSeq(hist.first, k) THEN hist.first
                              ELSE Append(hist.first, k),
                    last |-> IF S.rv = 0 THEN Extend(hist.last, k, v)
                             ELSE hist.last,
                    nfail |-> hist.nfail + (IF failAt = 0 THEN 0 ELSE 1),
                    growth_failed |-> hist.growth_failed \/ S.growth = "failed"]

\* the calloc calls one HASHMAP_PUT can make: the table, one entry per list
\* node during the rehash, the entry and the list node
FailPoints == 1 .. (Cardinality(DOMAIN nodes) + 3)

\* the caller issues another put
MorePuts ==
    m._num_entries < (IF hist.nfail = 0 THEN MaxPuts ELSE MaxPutsAfterFail)

\* HASHMAP_PUT with every allocation succeeding
Put ==
    /\ Usable
    /\ MorePuts
    /\ \E a \in PutArgs : DoPut(a[1], a[2], 0)

\* HASHMAP_PUT during which one calloc returns NULL
PutAllocFail ==
    /\ Usable
    /\ m._num_entries < MaxPutsAfterFail
    /\ hist.nfail < MaxFails
    /\ \E a \in PutArgs, failAt \in FailPoints : DoPut(a[1], a[2], failAt)

\* Get that links an Entry with a zero value for a key it does not find
GetInsertingAbsent ==
    /\ Usable
    /\ \E k \in Keys :
           \E r \in {HASHMAP_GET(m, entries, tables, NoResult, k)} :
               \E S \in {IF r.rv THEN Image(0)
                         ELSE _HASHMAP_TABLE_PUT(Image(0), k, NULL)} :
                   /\ call' = [op |-> "get", k |-> k, v |-> 0, rv |-> r.rv,
                               result |-> r.result, failed |-> "none",
                               growth |-> "none"]
                   /\ m' = S.m
                   /\ entries' = S.entries
                   /\ tables' = S.tables
                   /\ next_id' = S.next_id
                   /\ UNCHANGED <<nodes, hist>>

\* found = HASHMAP_GET(&result, m, k), with result holding NoResult before
Get ==
    /\ Usable
    /\ \E k \in Keys :
           \E r \in {HASHMAP_GET(m, entries, tables, NoResult, k)} :
               /\ call' = [op |-> "get", k |-> k, v |-> 0, rv |-> r.rv,
                           result |-> r.result, failed |-> "none",
                           growth |-> "none"]
               /\ UNCHANGED <<m, entries, nodes, tables, next_id, hist>>

\* HASHMAP_FREE(m), once
FreeMap ==
    /\ call.op # "free"
    /\ \E F \in {HASHMAP_FREE(FreeImage)} :
           /\ m' = F.m
           /\ entries' = F.entries
           /\ nodes' = F.nodes
           /\ tables' = F.tables
           /\ call' = [op |-> "free", k |-> 0, v |-> 0, rv |-> 0,
                       result |-> NoResult, failed |-> "none",
                       growth |-> "none", freed |-> F.freed, ub |-> F.ub]
           /\ UNCHANGED <<next_id, hist>>

Next == Put \/ PutAllocFail \/ Get

Spec == Init /\ [][Next]_vars

\* the runs in which no allocation fails
NextNoFail == Put \/ Get

SpecNoFail == Init /\ [][NextNoFail]_vars

\* HASHMAP_PUT of a key that was not put before, with the number of the
\* puts made so far as its value and no allocation failing
PutDistinct ==
    /\ Usable
    /\ Len(hist.first) < MaxDistinctPuts
    /\ \E k \in DistinctKeys(Len(hist.first) + 1) :
           DoPut(k, Len(hist.first), 0)

\* the runs that put distinct keys one at a time
NextDistinct == PutDistinct

SpecDistinct == Init /\ [][NextDistinct]_vars

\* one call of a hash function, recorded with its arguments and its result
Hashed(strategy, table_size, key, index) ==
    /\ call' = [op |-> "hash", strategy |-> strategy,
                table_size |-> table_size, key |-> key, rv |-> index]
    /\ UNCHANGED <<m, entries, nodes, tables, next_id, hist>>

HashLongLong ==
    \E table_size \in 1 .. MaxCapacity, val \in IntKeys :
        Hashed("_hash_long_long", table_size, val,
               _hash_long_long(table_size, val))

HashDouble ==
    \E table_size \in 1 .. MaxCapacity, val \in DoubleKeys :
        Hashed("_hash_double", table_size, val, _hash_double(table_size, val))

HashPtr ==
    \E table_size \in 1 .. MaxCapacity, ptr \in PtrKeys :
        Hashed("_hash_ptr", table_size, ptr, _hash_ptr(table_size, ptr))

\* the three hash functions applied to every capacity and key of the model
NextHash == HashLongLong \/ HashDouble \/ HashPtr

SpecHash == Init /\ [][NextHash]_vars

\* HASHMAP_PUT of one of the colliding keys, no allocation failing
PutColliding ==
    /\ Usable
    /\ m._num_entries < MaxChainPuts
    /\ \E k \in ChainKeys : DoPut(k, 7, 0)

\* the runs that put colliding keys in every order
NextChain == PutColliding

SpecChain == Init /\ [][NextChain]_vars

\* the life of a map from HASHMAP_INIT to HASHMAP_FREE
NextLife == Put \/ PutAllocFail \/ Get \/ FreeMap

SpecLife == InitAny /\ [][NextLife]_vars

-----------------------------------------------------------------------------
(* Walks over the data structure, used to state the properties             *)

\* the entries linked from entry e on through _next_entry
RECURSIVE ChainFrom(_, _, _)
ChainFrom(ents, e, fuel) ==
    IF e = NULL \/ fuel = 0
    THEN << >>
    ELSE IF e \notin DOMAIN ents
         THEN <<e>>
         ELSE <<e>> \o ChainFrom(ents, ents[e]._next_entry, fuel - 1)

\* the chain of bucket i of the current table, from its head on
Chain(mm, ents, tabs, i) ==
    ChainFrom(ents, tabs[mm._entry_table][i], Cardinality(DOMAIN ents) + 1)

\* the positions <<bucket, place in the chain>> of the entries with key k
SlotsOf(mm, ents, tabs, k) ==
    UNION {{<<i, j>> : j \in {x \in 1 .. Len(Chain(mm, ents, tabs, i)) :
                                ents[Chain(mm, ents, tabs, i)[x]]._entry.key = k}} :
           i \in 0 .. (mm._table_size - 1)}

\* the nodes linked from node n on through _next
RECURSIVE ListFrom(_, _, _)
ListFrom(nds, n, fuel) ==
    IF n = NULL \/ fuel = 0
    THEN << >>
    ELSE IF n \notin DOMAIN nds
         THEN <<n>>
         ELSE <<n>> \o ListFrom(nds, nds[n]._next, fuel - 1)

\* the entry-order list from its head on
EntryList(mm, nds) == ListFrom(nds, mm._head, Cardinality(DOMAIN nds) + 1)

\* the keys of the entries the list nodes reference, from head to tail
ListKeys(mm, ents, nds) ==
    [i \in 1 .. Len(EntryList(mm, nds)) |->
        ents[nds[EntryList(mm, nds)[i]]._table_entry]._entry.key]

\* what HASHMAP_GET(&result, m, k) yields in the current state
GetNow(k) == HASHMAP_GET(m, entries, tables, NoResult, k)

\* what HASHMAP_GET(&result, m, k) yields in the next state
GetNext(k) == HASHMAP_GET(m', entries', tables', NoResult, k)

-----------------------------------------------------------------------------
(* C1 .. C10                                                               *)

\* C1: as long as no growth has failed, HASHMAP_GET(k) returns true and
\* stores the value of the most recent HASHMAP_PUT(k, v) that reported
\* success, for every key k that was put.
C1_GetReturnsLastPut ==
    ~hist.growth_failed =>
        \A k \in DOMAIN hist.last :
            GetNow(k) = [rv |-> TRUE, result |-> hist.last[k]]

\* C2, the put of a stored key: when no allocation fails and no growth
\* fails in the call, it returns 0, the value is the new one, and the key
\* has one Entry in the chains after the call as before.
C2_UpdateInPlace ==
    (/\ call'.op = "put"
     /\ call'.failed = "none"
     /\ call'.growth # "failed"
     /\ SlotsOf(m, entries, tables, call'.k) # {})
    => /\ call'.rv = 0
       /\ GetNext(call'.k) = [rv |-> TRUE, result |-> call'.v]
       /\ Cardinality(SlotsOf(m', entries', tables', call'.k)) = 1

\* C2, the invariant, of the map mm with the heaps ents, nds and tabs: each
\* key occurs in at most one Entry of the bucket chains and in at most one
\* node of the entry-order list.
OneEntryPerKey(mm, ents, nds, tabs) ==
    \A k \in Keys :
        /\ Cardinality(SlotsOf(mm, ents, tabs, k)) <= 1
        /\ Cardinality({i \in 1 .. Len(ListKeys(mm, ents, nds)) :
                            ListKeys(mm, ents, nds)[i] = k}) <= 1

\* C2: a put of a stored key replaces the value in place and returns 0
\* without creating an Entry or a list node, and in every reachable state
\* each key occurs in at most one Entry of the chains and in at most one
\* node of the entry-order list.
C2_NoSecondEntry ==
    [][C2_UpdateInPlace /\ OneEntryPerKey(m', entries', nodes', tables')]_vars

\* C3: a put that doubles the table leaves HASHMAP_GET unchanged for every
\* key that was found before the call, except for the key being put.
C3_GrowthPreservesPairs ==
    [][(call'.op = "put" /\ m'._table_size # m._table_size)
       => \A k \in Keys \ {call'.k} :
              GetNow(k).rv => GetNext(k) = GetNow(k)]_vars

\* C4, the state part, of the map mm with the heaps ents and tabs: two
\* distinct stored keys with the same bucket index under the current
\* capacity lie in the same chain, and HASHMAP_GET returns for each the
\* value of its own Entry.
OwnValue(mm, ents, tabs) ==
    \A k1 \in Keys : \A k2 \in Keys \ {k1} :
        (/\ hash_func(mm._table_size, k1) = hash_func(mm._table_size, k2)
         /\ SlotsOf(mm, ents, tabs, k1) # {}
         /\ SlotsOf(mm, ents, tabs, k2) # {})
        => \E s1 \in SlotsOf(mm, ents, tabs, k1),
              s2 \in SlotsOf(mm, ents, tabs, k2) :
               /\ s1[1] = s2[1]
               /\ s1[2] # s2[2]
               /\ HASHMAP_GET(mm, ents, tabs, NoResult, k1) =
                    [rv |-> TRUE,
                     result |-> ents[Chain(mm, ents, tabs, s1[1])[s1[2]]]._entry.value]

\* C4, the step part: a put of one key leaves what HASHMAP_GET returns for
\* another key of the same bucket as it was.
C4_OtherUnchanged ==
    call'.op = "put"
    => \A k2 \in Keys \ {call'.k} :
           hash_func(m._table_size, k2) = hash_func(m._table_size, call'.k)
           => GetNext(k2) = GetNow(k2)

\* C4: two distinct keys with the same bucket index under the current
\* capacity are both stored in the same chain, HASHMAP_GET returns for each
\* its own value, and putting or updating one of them never changes the
\* value returned for the other.
C4_CollidingKeys ==
    [][C4_OtherUnchanged /\ OwnValue(m', entries', tables')]_vars

\* the values the caller's variable can hold when it is passed to HASHMAP_GET
Results == Values \cup {NoResult}

\* C5: HASHMAP_GET for a key that was never put returns false and leaves
\* the caller's result as it was, in every reachable state.
C5_GetOfAbsentKey ==
    /\ \A k \in Keys :
           ~InSeq(hist.first, k) =>
               \A r0 \in Results :
                   HASHMAP_GET(m, entries, tables, r0, k) =
                       [rv |-> FALSE, result |-> r0]
    /\ (call.op = "get" /\ ~InSeq(hist.first, call.k))
       => (call.rv = FALSE /\ call.result = NoResult)

\* a get of a key never put has run on a populated map that has grown, with
\* the key hashing to the bucket of the stored key
C5_Witness ==
    /\ call.op = "get"
    /\ ~InSeq(hist.first, call.k)
    /\ m._table_size = 2 * _DEFAULT_TABLE_SIZE
    /\ \E k \in Keys :
           /\ GetNow(k).rv
           /\ hash_func(m._table_size, k) = hash_func(m._table_size, call.k)

\* C6: while no allocation has failed, the walk of the entry-order list
\* from head to tail yields exactly the keys put so far, one node per key,
\* in the order in which the keys were first put.
C6_ListInInsertionOrder ==
    hist.nfail = 0 =>
        /\ Len(EntryList(m, nodes)) = Len(hist.first)
        /\ \A i \in 1 .. Len(hist.first) :
               ListKeys(m, entries, nodes)[i] = hist.first[i]

\* two keys are in the list after two growths and an update
C6_Witness ==
    /\ hist.nfail = 0
    /\ call.op = "put"
    /\ Len(hist.first) = 2
    /\ m._table_size = 4 * _DEFAULT_TABLE_SIZE
    /\ m._num_entries > Len(hist.first)

\* C7: a put changes the capacity exactly when 4 * _num_entries is at least
\* 3 * _table_size at the start of the call and the new table is allocated,
\* and the capacity it changes to is twice the old one.
C7_GrowthAtLoadFactor ==
    [][call'.op = "put" =>
        /\ (m'._table_size # m._table_size)
           <=> (/\ 4 * m._num_entries >= 3 * m._table_size
                /\ call'.failed # "table")
        /\ (m'._table_size # m._table_size)
           => m'._table_size = 2 * m._table_size]_vars

\* the put that started with 45 entries counted under capacity 60, a load
\* factor of exactly 0.75, has grown the table
C7_Witness ==
    /\ call.op = "put"
    /\ call.growth = "done"
    /\ m._num_entries = 46
    /\ m._table_size = 8 * _DEFAULT_TABLE_SIZE

\* C8: between operations _num_entries equals the number of nodes reachable
\* from the head of the entry-order list.
C8_CountEqualsListLength == m._num_entries = Len(EntryList(m, nodes))

\* C9: a put of a key that is not stored whose Entry allocation fails
\* returns -1 and leaves the bucket table unmodified.
C9_EntryFailureReported ==
    [][(call'.op = "put" /\ call'.failed = "entry")
       => /\ call'.rv = -1
          /\ call'.growth = "none" => tables' = tables]_vars

\* C10: a put of a new key that fails on the allocation of the Entry or of
\* the list node, with no growth in the call, leaves the bucket chains, the
\* entry-order list, the entry count and the result of HASHMAP_GET for every
\* key as they were before the call.
C10_FailedPutChangesNothing ==
    [][(/\ call'.op = "put"
        /\ call'.failed \in {"entry", "node"}
        /\ call'.growth = "none")
       => /\ tables' = tables
          /\ entries' = entries
          /\ nodes' = nodes
          /\ m' = m
          /\ \A k \in Keys : GetNext(k) = GetNow(k)]_vars

-----------------------------------------------------------------------------
(* C11 .. C20                                                              *)

\* every Entry the entry-order list of the map mm references is in a chain
\* of the current table
ListReachable(mm, ents, nds, tabs) ==
    \A i \in 1 .. Len(EntryList(mm, nds)) :
        \E b \in 0 .. (mm._table_size - 1) :
            InSeq(Chain(mm, ents, tabs, b), nds[EntryList(mm, nds)[i]]._table_entry)

\* C11: a put that attempts a growth either leaves the capacity doubled
\* with every Entry of the entry-order list reachable through the new
\* table, or returns -1 and leaves the capacity, the table and the result
\* of HASHMAP_GET for every key as before the call.
C11_GrowthAtomic ==
    [][(call'.op = "put" /\ call'.growth # "none")
       => \/ /\ m'._table_size = 2 * m._table_size
             /\ ListReachable(m', entries', nodes', tables')
          \/ /\ call'.rv = -1
             /\ m'._table_size = m._table_size
             /\ m'._entry_table = m._entry_table
             /\ tables' = tables
             /\ \A k \in Keys : GetNext(k) = GetNow(k)]_vars

\* C12: a put whose growth fails on the allocation of the doubled table
\* returns -1 and leaves the capacity, the table, every chain and the
\* entry-order list as before the call.
C12_TableFailureAborts ==
    [][(call'.op = "put" /\ call'.failed = "table")
       => /\ call'.rv = -1
          /\ m'._table_size = m._table_size
          /\ m'._entry_table = m._entry_table
          /\ m'._head = m._head
          /\ m'._tail = m._tail
          /\ tables' = tables
          /\ entries' = entries
          /\ nodes' = nodes]_vars

\* the allocation of the doubled table has failed in a put to a map that
\* holds two keys in one chain
C12_Witness ==
    /\ call.op = "put"
    /\ call.failed = "table"
    /\ call.rv = -1
    /\ \E b \in 0 .. (m._table_size - 1) : Len(Chain(m, entries, tables, b)) = 2

\* C13: HASHMAP_FREE of a map that holds n keys after puts and growths
\* without allocation failure frees n Entries, n list nodes and one table;
\* after it no block allocated since HASHMAP_INIT is left, and no block was
\* freed twice or read after it was freed.
C13_FreeReleasesAll ==
    (call.op = "free" /\ hist.nfail = 0 /\ m._entry_table # NULL)
    => /\ call.freed = [entries |-> Len(hist.first),
                        nodes |-> Len(hist.first),
                        tables |-> 1]
       /\ DOMAIN entries = {}
       /\ DOMAIN nodes = {}
       /\ DOMAIN tables = {}
       /\ ~call.ub

\* a map with two keys that has grown three times has been freed
C13_Witness ==
    /\ call.op = "free"
    /\ hist.nfail = 0
    /\ Len(hist.first) = 2
    /\ m._table_size = 8 * _DEFAULT_TABLE_SIZE
    /\ call.freed.entries = 2

\* C14: putting distinct keys one at a time, the capacity is 15 after the
\* 11th put and 30 after the 12th put.
C14_GrowthByTwelfthPut ==
    /\ Len(hist.first) = 11 => m._table_size = _DEFAULT_TABLE_SIZE
    /\ Len(hist.first) = 12 => m._table_size = 2 * _DEFAULT_TABLE_SIZE

\* C14 as amended: putting distinct keys one at a time, the capacity is
\* still 15 after the 12th put and 30 after the 13th put.
C14_GrowthByThirteenthPut ==
    /\ Len(hist.first) <= 12 => m._table_size = _DEFAULT_TABLE_SIZE
    /\ Len(hist.first) = 13 => m._table_size = 2 * _DEFAULT_TABLE_SIZE

\* the 13th put of a distinct key has grown the table
C14_Witness ==
    /\ call.op = "put"
    /\ call.growth = "done"
    /\ Len(hist.first) = 13
    /\ Cardinality(DOMAIN entries) = 13
    /\ m._table_size = 2 * _DEFAULT_TABLE_SIZE

\* C15: HASHMAP_INIT returns -1 exactly when the table could not be
\* allocated and 0 otherwise; when it returns 0 the map has capacity 15,
\* count 0, an empty entry-order list and 15 empty buckets, and HASHMAP_GET
\* returns false for every key.
C15_InitEmptyMap ==
    call.op = "init"
    => /\ call.rv \in {0, -1}
       /\ (call.rv = -1) <=> (call.failed = "table")
       /\ call.rv = 0
          => /\ m._table_size = 15
             /\ m._num_entries = 0
             /\ m._head = NULL
             /\ m._tail = NULL
             /\ DOMAIN nodes = {}
             /\ DOMAIN entries = {}
             /\ DOMAIN tables[m._entry_table] = 0 .. 14
             /\ \A i \in 0 .. 14 : tables[m._entry_table][i] = NULL
             /\ \A k \in Keys :
                    GetNow(k) = [rv |-> FALSE, result |-> NoResult]

\* HASHMAP_INIT has returned 0 and the table is allocated
C15_Witness ==
    /\ call.op = "init"
    /\ call.rv = 0
    /\ m._entry_table \in DOMAIN tables

\* C16: HASHMAP_GET leaves the map struct, the tables, the Entries and the
\* list nodes as they were and allocates nothing, whether or not it finds
\* the key.
C16_GetMutatesNothing ==
    [][call'.op = "get"
       => /\ m' = m
          /\ tables' = tables
          /\ entries' = entries
          /\ nodes' = nodes
          /\ next_id' = next_id]_vars

\* a get has found its key in the second place of a chain of a grown table
C16_Witness ==
    /\ call.op = "get"
    /\ call.rv = TRUE
    /\ m._table_size = 2 * _DEFAULT_TABLE_SIZE
    /\ \E s \in SlotsOf(m, entries, tables, call.k) : s[2] = 2

\* C17: for each of the three hash functions, every capacity and every key,
\* negative integral keys included, the index computed lies in
\* 0 .. capacity - 1.
C17_IndexInRange ==
    call.op = "hash" => call.rv \in 0 .. (call.table_size - 1)

\* _hash_long_long has been applied to a negative key whose remainder in
\* the signed type is not zero
C17_Witness ==
    /\ call.op = "hash"
    /\ call.strategy = "_hash_long_long"
    /\ call.key = -16
    /\ call.table_size = _DEFAULT_TABLE_SIZE
    /\ call.rv = 0

\* C18: every HASHMAP_PUT, whether it inserts, updates or fails, adds one
\* to _num_entries, and no other operation changes _num_entries.
C18_CounterPerPut ==
    [][/\ call'.op = "put" => m'._num_entries = m._num_entries + 1
       /\ call'.op # "put" => m'._num_entries = m._num_entries]_vars

\* the counter stands at 13 after a put that failed on the allocation of
\* the doubled table, with one key stored
C18_Witness ==
    /\ call.op = "put"
    /\ call.failed = "table"
    /\ call.rv = -1
    /\ m._num_entries = 13
    /\ Len(EntryList(m, nodes)) = 1

\* the places <<bucket, place in the chain>> of the map mm that hold an Entry
AllSlots(mm, ents, tabs) ==
    UNION {{<<b, j>> : j \in 1 .. Len(Chain(mm, ents, tabs, b))} :
           b \in 0 .. (mm._table_size - 1)}

\* C19, of the map mm with the heaps ents, nds and tabs: no Entry is in two
\* places of the chains, every Entry of the chains is referenced by exactly
\* one list node, every list node references a live Entry of the chains,
\* and the chains hold as many Entries as the list has nodes.
EntriesMatchNodes(mm, ents, nds, tabs) ==
    /\ \A s \in AllSlots(mm, ents, tabs) : \A t \in AllSlots(mm, ents, tabs) :
           Chain(mm, ents, tabs, s[1])[s[2]] = Chain(mm, ents, tabs, t[1])[t[2]]
           => s = t
    /\ \A s \in AllSlots(mm, ents, tabs) :
           Cardinality({i \in 1 .. Len(EntryList(mm, nds)) :
                           nds[EntryList(mm, nds)[i]]._table_entry =
                               Chain(mm, ents, tabs, s[1])[s[2]]}) = 1
    /\ \A i \in 1 .. Len(EntryList(mm, nds)) :
           /\ nds[EntryList(mm, nds)[i]]._table_entry \in DOMAIN ents
           /\ \E s \in AllSlots(mm, ents, tabs) :
                  Chain(mm, ents, tabs, s[1])[s[2]] =
                      nds[EntryList(mm, nds)[i]]._table_entry
    /\ Cardinality(AllSlots(mm, ents, tabs)) = Len(EntryList(mm, nds))

\* C19: in every state between operations the Entries reachable through
\* the chains and the nodes of the entry-order list correspond one to one
\* through _table_entry.
C19_EntriesMatchNodes == EntriesMatchNodes(m, entries, nodes, tables)

\* C20, of the map mm with the heaps ents, nds and tabs: the _ll_node of
\* every Entry in a chain is a list node whose _table_entry is that Entry.
BackReferences(mm, ents, nds, tabs) ==
    \A s \in AllSlots(mm, ents, tabs) :
        /\ ents[Chain(mm, ents, tabs, s[1])[s[2]]]._ll_node \in DOMAIN nds
        /\ nds[ents[Chain(mm, ents, tabs, s[1])[s[2]]]._ll_node]._table_entry
               = Chain(mm, ents, tabs, s[1])[s[2]]

\* C20: in every state between operations each Entry stored in the table
\* refers through _ll_node to the list node that refers to it, also after
\* a growth has re-homed the Entry.
C20_BackReferences == BackReferences(m, entries, nodes, tables)

-----------------------------------------------------------------------------
(* C21 .. C28                                                              *)

\* C21: a HASHMAP_PUT returns -1 only when a calloc failed during the call;
\* in every reachable state, also after a failed put or a failed growth, a
\* put during which every allocation succeeds returns 0.
C21_FailureOnlyOnAllocFail ==
    [][call'.op = "put" =>
        /\ call'.rv \in {0, -1}
        /\ call'.failed = "none" => call'.rv = 0]_vars

\* the place of x in the sequence s; 0 when x is not in s
Pos(s, x) == IF InSeq(s, x) THEN CHOOSE i \in 1 .. Len(s) : s[i] = x ELSE 0

\* the keys of the chain of bucket b, from the head of the chain on
ChainKeysOf(mm, ents, tabs, b) ==
    [j \in 1 .. Len(Chain(mm, ents, tabs, b)) |->
        ents[Chain(mm, ents, tabs, b)[j]]._entry.key]

\* C22, the state part, of the map mm with the heaps ents and tabs: along
\* every chain the keys follow one another as in the sequence first.
ChainsInOrder(mm, ents, tabs, first) ==
    \A b \in 0 .. (mm._table_size - 1) :
        \A i \in 1 .. Len(Chain(mm, ents, tabs, b)) :
            /\ Pos(first, ChainKeysOf(mm, ents, tabs, b)[i]) > 0
            /\ \A j \in 1 .. (i - 1) :
                   Pos(first, ChainKeysOf(mm, ents, tabs, b)[j])
                       < Pos(first, ChainKeysOf(mm, ents, tabs, b)[i])

\* C22, the step part: a put without growth of a key that is not stored
\* appends one Entry with that key to the chain of its bucket and leaves
\* every other chain as it was.
C22_AppendAtChainEnd ==
    (/\ call'.op = "put"
     /\ call'.growth = "none"
     /\ ~InSeq(hist.first, call'.k))
    => \A b \in 0 .. (m._table_size - 1) :
           IF b = hash_func(m._table_size, call'.k)
           THEN /\ Len(Chain(m', entries', tables', b))
                       = Len(Chain(m, entries, tables, b)) + 1
                /\ SubSeq(Chain(m', entries', tables', b), 1,
                          Len(Chain(m, entries, tables, b)))
                       = Chain(m, entries, tables, b)
                /\ ChainKeysOf(m', entries', tables', b)
                       [Len(Chain(m', entries', tables', b))] = call'.k
           ELSE Chain(m', entries', tables', b) = Chain(m, entries, tables, b)

\* C22: with no allocation failing, a put of a key that is not stored
\* appends the new Entry at the end of the chain of its bucket without
\* reordering the chain, and in every reachable state the Entries of each
\* chain appear from head to end in the order in which their keys were
\* first put, also after a rehash.
C22_ChainInInsertionOrder ==
    [][C22_AppendAtChainEnd
       /\ ChainsInOrder(m', entries', tables', hist'.first)]_vars

\* a growth has rehashed four keys put in an order other than that of their
\* values, and three of them share a chain of the doubled table
C22_Witness ==
    /\ call.op = "put"
    /\ call.growth = "done"
    /\ hist.first = <<31, 16, -15, 1>>
    /\ m._table_size = 2 * _DEFAULT_TABLE_SIZE
    /\ ChainKeysOf(m, entries, tables, 1) = <<31, -15, 1>>

\* C23: a put frees the table that was current at its start only when its
\* growth rehashed every Entry with success; after a growth whose rehash
\* aborted the old table is still allocated.
C23_OldTableKeptOnFailure ==
    [][call'.op = "put" =>
        /\ m._entry_table \notin DOMAIN tables' => call'.growth = "done"
        /\ (call'.growth = "failed" /\ call'.failed # "table")
           => m._entry_table \in DOMAIN tables']_vars

\* C24, the state part, of the list of the map mm in the heap nds: head and
\* tail are NULL together, nothing precedes the head, nothing follows the
\* tail, the successor of every node refers back to it, and the walk from
\* the head visits every node once and ends at the tail.
WellFormedList(mm, nds) ==
    /\ (mm._head = NULL) <=> (mm._tail = NULL)
    /\ mm._head # NULL
       => /\ mm._head \in DOMAIN nds
          /\ mm._tail \in DOMAIN nds
          /\ nds[mm._head]._previous = NULL
          /\ nds[mm._tail]._next = NULL
          /\ EntryList(mm, nds)[Len(EntryList(mm, nds))] = mm._tail
    /\ \A n \in DOMAIN nds :
           nds[n]._next # NULL
           => /\ nds[n]._next \in DOMAIN nds
              /\ nds[nds[n]._next]._previous = n
    /\ Len(EntryList(mm, nds)) = Cardinality(DOMAIN nds)
    /\ \A i \in 1 .. Len(EntryList(mm, nds)) :
           \A j \in 1 .. Len(EntryList(mm, nds)) :
               EntryList(mm, nds)[i] = EntryList(mm, nds)[j] => i = j

\* C24, the step part: a step that allocates a list node makes it the tail,
\* behind the nodes that were in the list, whose links stay as they were
\* but for the _next of the old tail; any other step leaves the list alone.
C24_AppendAtTail ==
    IF next_id'.node # next_id.node
    THEN /\ EntryList(m', nodes') = Append(EntryList(m, nodes), next_id.node)
         /\ m'._tail = next_id.node
         /\ \A n \in DOMAIN nodes :
                /\ nodes'[n]._previous = nodes[n]._previous
                /\ n # m._tail => nodes'[n]._next = nodes[n]._next
    ELSE /\ EntryList(m', nodes') = EntryList(m, nodes)
         /\ m'._head = m._head
         /\ m'._tail = m._tail
         /\ \A n \in DOMAIN nodes :
                /\ nodes'[n]._previous = nodes[n]._previous
                /\ nodes'[n]._next = nodes[n]._next

\* C24: in every state between operations, also after failed puts and
\* failed growths, the entry-order list is a well-formed acyclic doubly
\* linked list, and every append adds the new node at the tail and leaves
\* the links among the earlier nodes unchanged.
C24_ListWellFormed ==
    [][C24_AppendAtTail /\ WellFormedList(m', nodes')]_vars

\* a put has appended the third node to the list, after a failed growth
C24_Witness ==
    /\ call.op = "put"
    /\ call.rv = 0
    /\ hist.growth_failed
    /\ Len(EntryList(m, nodes)) = 3
    /\ m._tail = 3
    /\ next_id.node = 4
    /\ entries[nodes[m._tail]._table_entry]._entry.key = call.k

\* C25: in every state between operations, also after failed puts and
\* failed growths, every Entry in the chain of bucket b of the current
\* table is allocated and has a key whose hash under the current capacity
\* is b.
C25_EntriesInOwnBucket ==
    \A b \in 0 .. (m._table_size - 1) :
        \A j \in 1 .. Len(Chain(m, entries, tables, b)) :
            /\ Chain(m, entries, tables, b)[j] \in DOMAIN entries
            /\ hash_func(m._table_size,
                         ChainKeysOf(m, entries, tables, b)[j]) = b

\* the second growth has failed in its rehash after key 31 was re-inserted:
\* the key left bucket 1, where it was under the capacities 15 and 30, for
\* bucket 31 of the table of capacity 60
C25_Witness ==
    /\ call.op = "put"
    /\ call.growth = "failed"
    /\ call.failed = "rehash"
    /\ m._table_size = 4 * _DEFAULT_TABLE_SIZE
    /\ ChainKeysOf(m, entries, tables, 31) = <<31>>
    /\ ChainKeysOf(m, entries, tables, 1) = << >>

\* the number of bucket tables allocated since HASHMAP_INIT: the growths
\* whose calloc of the doubled table succeeded
TablesGrown(nid) == nid.table - 2

\* C26: the capacity is 15 * 2^g, g being the number of growths whose table
\* allocation succeeded; no step lowers the capacity; a put in which a
\* growth allocated its table doubles the capacity and installs a new
\* array, and every other step, HASHMAP_GET included, keeps the capacity
\* and the same table array.
C26_CapacityDoublesPerGrowth ==
    [][/\ m'._table_size = _DEFAULT_TABLE_SIZE * 2 ^ TablesGrown(next_id')
       /\ m'._table_size >= m._table_size
       /\ IF call'.op = "put" /\ call'.growth # "none" /\ call'.failed # "table"
          THEN /\ TablesGrown(next_id') = TablesGrown(next_id) + 1
               /\ m'._table_size = 2 * m._table_size
               /\ m'._entry_table \notin DOMAIN tables
               /\ m'._entry_table \in DOMAIN tables'
          ELSE /\ TablesGrown(next_id') = TablesGrown(next_id)
               /\ m'._table_size = m._table_size
               /\ m'._entry_table = m._entry_table
               /\ DOMAIN tables' = DOMAIN tables]_vars

\* the second growth has failed on the allocation of its table: the
\* capacity stays at 30 after one growth that allocated its table
C26_Witness ==
    /\ call.op = "put"
    /\ call.growth = "failed"
    /\ call.failed = "table"
    /\ m._num_entries = 24
    /\ TablesGrown(next_id) = 1
    /\ m._table_size = 2 * _DEFAULT_TABLE_SIZE

\* the number of Entries in the chains of the current table
StoredEntries == Cardinality(AllSlots(m, entries, tables))

\* C27: in the runs without allocation failure, after every HASHMAP_PUT the
\* chains hold at most _num_entries Entries and _num_entries - 1 is below
\* 0.75 * capacity, so that the stored Entries never exceed
\* 0.75 * capacity + 1.
C27_LoadBelowLimitAfterPut ==
    call.op = "put"
    => /\ StoredEntries <= m._num_entries
       /\ _LOAD_FACTOR_LIM_DEN * (m._num_entries - 1)
              < _LOAD_FACTOR_LIM_NUM * m._table_size
       /\ _LOAD_FACTOR_LIM_DEN * StoredEntries
              <= _LOAD_FACTOR_LIM_NUM * m._table_size + _LOAD_FACTOR_LIM_DEN

\* the put that started with 23 puts counted under capacity 30 has doubled
\* the table once and returned with two Entries stored
C27_Witness ==
    /\ call.op = "put"
    /\ call.growth = "done"
    /\ m._num_entries = 24
    /\ m._table_size = 4 * _DEFAULT_TABLE_SIZE
    /\ StoredEntries = 2

\* C28: for every address, odd addresses included, the index _hash_ptr
\* computes under an even capacity is even; the capacities 30, 60 and 120
\* that a map has after its growths are among them.
C28_PtrIndexEven ==
    (/\ call.op = "hash"
     /\ call.strategy = "_hash_ptr"
     /\ call.table_size % 2 = 0)
    => call.rv % 2 = 0

\* _hash_ptr has been applied to an odd address under capacity 120, with
\* the first remainder beyond the capacity
C28_Witness ==
    /\ call.op = "hash"
    /\ call.strategy = "_hash_ptr"
    /\ call.table_size = 8 * _DEFAULT_TABLE_SIZE
    /\ call.key % 2 = 1
    /\ (call.key * 6) % (2 * call.table_size) >= call.table_size
    /\ call.rv > 0

====
